---- MODULE Spec2Model ----
(***************************************************************************)
(* Model of CrearPelicula.py: the movie-creation Lambda handler, its       *)
(* JSON-lines logger (print_log / append_log_file) and the log reader      *)
(* (load_logs).                                                            *)
(*                                                                         *)
(* Text is a sequence of characters.  A character is a one-symbol string   *)
(* (QUOTE, BSL, NL, SP, braces, digits) or a chunk of ordinary letters     *)
(* that needs no escaping ("tipo", "ERROR", "a", ...).  JSON values are    *)
(* tagged records: null, number, string (a text), list, object (a function *)
(* from key chunks to values).                                             *)
(***************************************************************************)
EXTENDS Integers, Sequences, FiniteSets, TLC

\* ------------------------------------------------------------------ bounds
MaxTime    == 2   \* distinct clock readings iso_now() can return
MaxCalls   == 1   \* calls of lambda_handler in one run
MaxAppends == 2   \* direct calls of append_log_file in one run
MaxLines   == 3   \* lines of a pre-existing log file given to load_logs
NumInv     == 2   \* concurrent invocations sharing the log file

\* -------------------------------------------------------------- characters
QUOTE == "\""
BSL   == "\\"
NL    == "\n"
SP    == " "
LBR   == "{"
RBR   == "}"
LBK   == "["
RBK   == "]"
LOG_PATH == "/tmp/crear_pelicula.logl"

Digits == <<"0", "1", "2", "3", "4", "5", "6", "7", "8", "9">>

\* str(n) for a small natural number: its decimal digits
RECURSIVE IntText(_)
IntText(n) == IF n < 10 THEN <<Digits[n + 1]>>
              ELSE IntText(n \div 10) \o <<Digits[(n % 10) + 1]>>

\* the one element of a one-element set: Only({F(x) : x \in {e}}) is F(e)
\* with e evaluated once
Only(S) == CHOOSE x \in S : TRUE

IsDigit(c) == \E i \in 1..10 : Digits[i] = c
DigitVal(c) == (CHOOSE i \in 1..10 : Digits[i] = c) - 1

\* ------------------------------------------------------------- JSON values
JNull    == [t |-> "null"]
JNum(n)  == [t |-> "num", v |-> n]
JStr(s)  == [t |-> "str", v |-> s]
JList    == [t |-> "list"]                 \* the empty list []
JObj(m)  == [t |-> "obj", v |-> m]         \* m: a function from key texts to values
EmptyMap == [k \in {} |-> JNull]
IsObj(x) == x.t = "obj"
K(name)  == <<name>>                        \* the text of a key or of a fixed word
HasKey(x, name) == IsObj(x) /\ K(name) \in DOMAIN x.v
Get(x, name) == x.v[K(name)]
\* {**a, **b}: the keys of b win
Merge(a, b) == b @@ a

\* The order in which the keys of a dict are written (insertion order of the
\* dict literals of the source).
KeyOrder == <<"tipo", "log_datos", "timestamp", "action", "status", "message",
              "missing_field", "error", "error_type", "error_message", "body",
              "pelicula", "tenant_id", "uuid", "pelicula_datos", "title",
              "dynamodb_response_metadata", "dynamodb_response",
              "ResponseMetadata", "HTTPStatusCode", "details">>

\* ---------------------------------------------------------------- json.dumps
\* Escaping of one character inside a JSON string (ensure_ascii=False: every
\* other character is written as it is).
EscapeChar(c) == IF c = QUOTE THEN <<BSL, QUOTE>>
                 ELSE IF c = BSL THEN <<BSL, BSL>>
                 ELSE IF c = NL THEN <<BSL, "n">>
                 ELSE <<c>>

RECURSIVE Escape(_)
Escape(s) == IF s = <<>> THEN <<>> ELSE EscapeChar(Head(s)) \o Escape(Tail(s))

DumpsStr(s) == <<QUOTE>> \o Escape(s) \o <<QUOTE>>

\* the keys of a dict in the order they are written
KeysOf(m) == SelectSeq(KeyOrder, LAMBDA name : K(name) \in DOMAIN m)

RECURSIVE Dumps(_), DumpsMembers(_, _, _)
\* json.dumps(x, ensure_ascii=False): one line of text, separators ", " and ": "
Dumps(x) ==
    CASE x.t = "null" -> <<"null">>
      [] x.t = "num"  -> IntText(x.v)
      [] x.t = "str"  -> DumpsStr(x.v)
      [] x.t = "list" -> <<LBK, RBK>>
      [] x.t = "obj"  -> <<LBR>> \o DumpsMembers(x.v, KeysOf(x.v), TRUE) \o <<RBR>>

\* the members of dict m whose keys are ks
DumpsMembers(m, ks, first) ==
    IF ks = <<>> THEN <<>>
    ELSE (IF first THEN <<>> ELSE <<",", SP>>)
         \o DumpsStr(K(Head(ks))) \o <<":", SP>> \o Dumps(m[K(Head(ks))])
         \o DumpsMembers(m, Tail(ks), FALSE)

\* ---------------------------------------------------------------- json.loads
IsWs(c) == c \in {SP, NL}

RECURSIVE SkipWs(_, _)
SkipWs(s, i) == IF i <= Len(s) /\ IsWs(s[i]) THEN SkipWs(s, i + 1) ELSE i

ParseFail == [ok |-> FALSE, val |-> JNull, next |-> 0]
ParseOk(v, n) == [ok |-> TRUE, val |-> v, next |-> n]

\* the characters of a string literal after its opening quote
RECURSIVE ParseStr(_, _, _)
ParseStr(s, i, acc) ==
    IF i > Len(s) THEN ParseFail
    ELSE IF s[i] = QUOTE THEN ParseOk(acc, i + 1)
    ELSE IF s[i] = NL THEN ParseFail
    ELSE IF s[i] = BSL
         THEN IF i + 1 > Len(s) THEN ParseFail
              ELSE IF s[i + 1] = "n" THEN ParseStr(s, i + 2, Append(acc, NL))
              ELSE IF s[i + 1] \in {QUOTE, BSL} THEN ParseStr(s, i + 2, Append(acc, s[i + 1]))
              ELSE ParseFail
    ELSE ParseStr(s, i + 1, Append(acc, s[i]))

RECURSIVE ParseDigits(_, _, _)
ParseDigits(s, i, acc) ==
    IF i <= Len(s) /\ IsDigit(s[i]) THEN ParseDigits(s, i + 1, 10 * acc + DigitVal(s[i]))
    ELSE ParseOk(JNum(acc), i)

RECURSIVE ParseVal(_, _), ParseAt(_, _), ParseMember(_, _, _, _), ParseKey(_, _, _, _),
          ParseColon(_, _, _), ParseColonAt(_, _, _, _), ParseMemberVal(_, _, _, _),
          ParseAfterMember(_, _, _), ParseAfterAt(_, _, _)

StrResult(r) == IF r.ok THEN ParseOk(JStr(r.val), r.next) ELSE ParseFail
ListEnd(s, k) == IF k <= Len(s) /\ s[k] = RBK THEN ParseOk(JList, k + 1) ELSE ParseFail

\* a value starting at or after position i
ParseVal(s, i) == ParseAt(s, SkipWs(s, i))

\* a value starting at position j, which holds no whitespace
ParseAt(s, j) ==
    IF j > Len(s) THEN ParseFail
    ELSE IF s[j] = "null" THEN ParseOk(JNull, j + 1)
    ELSE IF s[j] = "0" THEN ParseOk(JNum(0), j + 1)
    ELSE IF IsDigit(s[j]) THEN ParseDigits(s, j, 0)
    ELSE IF s[j] = QUOTE THEN Only({StrResult(r) : r \in {ParseStr(s, j + 1, <<>>)}})
    ELSE IF s[j] = LBK THEN ListEnd(s, SkipWs(s, j + 1))
    ELSE IF s[j] = LBR THEN ParseMember(s, j + 1, EmptyMap, TRUE)
    ELSE ParseFail

\* after "{" (first) or ",": "key": value, then what follows a member; "}"
\* right after "{" closes the empty object
ParseMember(s, i, m, first) == ParseKey(s, SkipWs(s, i), m, first)

ParseKey(s, j, m, first) ==
    IF j > Len(s) THEN ParseFail
    ELSE IF s[j] = RBR /\ first THEN ParseOk(JObj(EmptyMap), j + 1)
    ELSE IF s[j] # QUOTE THEN ParseFail
    ELSE Only({ParseColon(s, kr, m) : kr \in {ParseStr(s, j + 1, <<>>)}})

ParseColon(s, kr, m) ==
    IF ~kr.ok THEN ParseFail ELSE ParseColonAt(s, kr, SkipWs(s, kr.next), m)

ParseColonAt(s, kr, c, m) ==
    IF c > Len(s) \/ s[c] # ":" THEN ParseFail
    ELSE Only({ParseMemberVal(s, kr, vr, m) : vr \in {ParseVal(s, c + 1)}})

ParseMemberVal(s, kr, vr, m) ==
    IF ~vr.ok THEN ParseFail
    ELSE ParseAfterMember(s, vr.next, (kr.val :> vr.val) @@ m)

ParseAfterMember(s, i, m) == ParseAfterAt(s, SkipWs(s, i), m)

ParseAfterAt(s, j, m) ==
    IF j > Len(s) THEN ParseFail
    ELSE IF s[j] = RBR THEN ParseOk(JObj(m), j + 1)
    ELSE IF s[j] = "," THEN ParseMember(s, j + 1, m, FALSE)
    ELSE ParseFail

LoadsEnd(s, r) ==
    IF r.ok /\ SkipWs(s, r.next) > Len(s) THEN [ok |-> TRUE, val |-> r.val]
    ELSE [ok |-> FALSE, val |-> JNull]

\* json.loads(s): ok = FALSE stands for JSONDecodeError
Loads(s) == Only({LoadsEnd(s, r) : r \in {ParseVal(s, 1)}})

\* ------------------------------------------------------------------- state
VARIABLES
    fs,         \* the log file at LOG_PATH: [exists, content (a text)]
    stdout,     \* the lines print() wrote during the last operation
    last,       \* the last operation: its name, inputs and result
    calls,      \* operations performed so far
    tableName,  \* os.environ.get("TABLE_NAME"): "None", "" or a name
    written,    \* the entries appended to the log file by successful appends
    given,      \* the lines a pre-existing log file was made of
    inv         \* concurrent invocations: each one's position in its append

vars == <<fs, stdout, last, calls, tableName, written, given, inv>>

NoFile == [exists |-> FALSE, content |-> <<>>]
NoOp == [op |-> "none"]
Idle == [i \in 1..NumInv |-> [pc |-> "idle"]]
Times  == 1..MaxTime

\* ------------------------------------------------------------------ logger
\* datetime.utcnow().isoformat() + "Z" for the clock reading t
iso_now(t) == <<"T">> \o IntText(t) \o <<"Z">>

make_log_entry(tipo, datos, t) ==
    JObj((K("tipo") :> JStr(K(tipo)))
         @@ (K("log_datos") :> JObj(Merge(K("timestamp") :> JStr(iso_now(t)), datos))))

\* the line print_log(entry) writes to standard output
print_log(entry) == Dumps(entry)

\* a logger that opens the file for writing, not for appending
OpenModeW == "w"

\* open(path, mode): "a" creates a missing file and keeps the content
OpenMode == "a"
OpenFile(f, mode) == IF mode = "a" THEN [exists |-> TRUE, content |-> f.content]
                     ELSE [exists |-> TRUE, content |-> <<>>]

\* one write() of data through a descriptor opened in `mode` whose own offset
\* is pos: in append mode the data goes to the end of the file
WriteFile(f, mode, pos, data) ==
    IF mode = "a" THEN [exists |-> TRUE, content |-> f.content \o data]
    ELSE [exists |-> TRUE,
          content |-> SubSeq(f.content, 1, pos) \o data
                      \o SubSeq(f.content, pos + Len(data) + 1, Len(f.content))]

\* a writer that forgets the newline
LogLineNoNewline(entry) == Dumps(entry)

\* the text append_log_file hands to f.write
LogLine(entry) == Dumps(entry) \o <<NL>>

\* the entry of the except branch of append_log_file
AppendWarn(t) ==
    make_log_entry("ERROR",
        (K("action") :> JStr(K("append_log_file")))
        @@ (K("message") :> JStr(K("failed to append log file")))
        @@ (K("error") :> JStr(<<"could not write to ", LOG_PATH>>)), t)

\* What the file system does to the append: "ok", "open_fail" (open raises:
\* permission, missing directory) or "write_fail" (open succeeds, the write
\* raises and nothing reaches the file: disk full).
AppendOutcomes == {"ok", "open_fail", "write_fail"}

\* a logger without the except branch: the failure leaves the function
append_log_file_reraise(entry, f, res, t) ==
    IF res = "ok"
    THEN [fs |-> WriteFile(OpenFile(f, OpenMode), OpenMode, Len(f.content), LogLine(entry)),
          out |-> <<>>, raised |-> FALSE]
    ELSE [fs |-> IF res = "open_fail" THEN f ELSE OpenFile(f, OpenMode),
          out |-> <<>>, raised |-> TRUE]

\* append_log_file(entry): the file afterwards, the lines printed, and whether
\* an exception leaves the function
append_log_file(entry, f, res, t) ==
    IF res = "ok"
    THEN [fs |-> WriteFile(OpenFile(f, OpenMode), OpenMode, Len(f.content), LogLine(entry)),
          out |-> <<>>, raised |-> FALSE]
    ELSE [fs |-> IF res = "open_fail" THEN f ELSE OpenFile(f, OpenMode),
          out |-> <<Dumps(AppendWarn(t))>>, raised |-> FALSE]

\* -------------------------------------------------------------- log reader
\* iteration over a text file: the lines, each without its terminator
\* starts: where a line begins; nls: where a newline is
LinesAt(s, starts, nls) ==
    LET nth(k) == CHOOSE p \in starts : Cardinality({q \in starts : q < p}) = k - 1
        endOf(p) == IF \E q \in nls : q >= p
                    THEN (CHOOSE q \in nls : q >= p /\ \A r \in nls : r >= p => q <= r) - 1
                    ELSE Len(s)
    IN [k \in 1..Cardinality(starts) |-> SubSeq(s, nth(k), endOf(nth(k)))]

SplitLines(s) ==
    Only({LinesAt(s, starts, nls) :
            starts \in {{i \in 1..Len(s) : i = 1 \/ s[i - 1] = NL}},
            nls \in {{i \in 1..Len(s) : s[i] = NL}}})

RECURSIVE LStrip(_)
LStrip(s) == IF s # <<>> /\ IsWs(Head(s)) THEN LStrip(Tail(s)) ELSE s

RECURSIVE RStrip(_)
RStrip(s) == IF s # <<>> /\ IsWs(s[Len(s)]) THEN RStrip(SubSeq(s, 1, Len(s) - 1)) ELSE s

\* a reader that does not strip the line
NoStrip(s) == s

\* line.strip()
Strip(s) == RStrip(LStrip(s))

\* the entry load_logs prints for an unparsable line
LoadWarn(line_no, t) ==
    make_log_entry("ERROR",
        (K("action") :> JStr(K("load_logs")))
        @@ (K("message") :> JStr(<<"invalid json on line ">> \o IntText(line_no)
                                  \o <<" of ", LOG_PATH>>)), t)

\* the loop of load_logs from line line_no on: strip the line, skip it when
\* blank, parse it, keep the value or print the warning, go on
RECURSIVE LoadLoop(_, _, _, _, _), LoadLine(_, _, _, _, _, _), LoadParsed(_, _, _, _, _, _)
LoadLoop(lines, line_no, entries, out, t) ==
    IF line_no > Len(lines) THEN [entries |-> entries, out |-> out]
    ELSE Only({LoadLine(lines, line_no, line, entries, out, t) :
                 line \in {Strip(lines[line_no])}})

LoadLine(lines, line_no, line, entries, out, t) ==
    IF line = <<>> THEN LoadLoop(lines, line_no + 1, entries, out, t)
    ELSE Only({LoadParsed(lines, line_no, r, entries, out, t) : r \in {Loads(line)}})

LoadParsed(lines, line_no, r, entries, out, t) ==
    IF r.ok THEN LoadLoop(lines, line_no + 1, Append(entries, r.val), out, t)
    ELSE LoadLoop(lines, line_no + 1, entries,
                  Append(out, print_log(LoadWarn(line_no, t))), t)

load_logs(f, t) ==
    IF ~f.exists THEN [entries |-> <<>>, out |-> <<>>]
    ELSE Only({LoadLoop(lines, 1, <<>>, <<>>, t) : lines \in {SplitLines(f.content)}})

\* ----------------------------------------------------------- lambda_handler
\* event.get("body", {}) and the parse of a textual body (lines 74-83): an
\* event without .get, or without a body, gives {}; a string is parsed, and an
\* unparsable one gives {}; any other value is kept as it is.
ParsedOrEmpty(r) == IF r.ok THEN r.val ELSE JObj(EmptyMap)

NormalizeBody(event) ==
    IF event.kind \in {"noget", "nobody"} THEN JObj(EmptyMap)
    ELSE IF event.body.t = "str"
         THEN Only({ParsedOrEmpty(r) : r \in {Loads(event.body.v)}})
    ELSE event.body

\* body[name]: the value, KeyError for a dict without the key, TypeError for
\* a value that is no dict (None, a list, a number, a string)
Subscript(body, name) ==
    IF IsObj(body)
    THEN IF K(name) \in DOMAIN body.v
         THEN [exc |-> "none", val |-> body.v[K(name)]]
         ELSE [exc |-> "KeyError", val |-> JNull]
    ELSE [exc |-> "TypeError", val |-> JNull]

\* the order of the two subscripts of the first try block (lines 86-87)
FieldOrder == <<"tenant_id", "pelicula_datos">>

\* the first exception the field reads raise: [exc, field], exc = "none" when
\* both fields are there
FirstRaised(a, b) ==
    IF a.exc # "none" THEN [exc |-> a.exc, field |-> FieldOrder[1]]
    ELSE IF b.exc # "none" THEN [exc |-> b.exc, field |-> FieldOrder[2]]
    ELSE [exc |-> "none", field |-> "none"]

FirstFieldError(body) ==
    FirstRaised(Subscript(body, FieldOrder[1]), Subscript(body, FieldOrder[2]))

\* str(KeyError(name)) is the name in single quotes
KeyErrorText(name) == <<"'", name, "'">>

\* not os.environ.get("TABLE_NAME")
TableMissing(tname) == tname \in {"None", ""}

uuid4(u) == <<"uuid-">> \o IntText(u)

\* what table.put_item does: returns, raises BotoCoreError/ClientError, or
\* raises something else
PutOutcomes == {"ok", "client_error", "other_error"}
\* what boto3.resource / dynamodb.Table do: return or raise
ClientOutcomes == {"ok", "raise"}

PutResponse == JObj(K("ResponseMetadata") :> JObj(K("HTTPStatusCode") :> JNum(200)))
PutErrorText(putres) == IF putres = "client_error" THEN K("throttled") ELSE K("boom")

\* a handler that repeats a failed put once
PutAttemptsRetry(pelicula, putres) ==
    IF putres = "ok" THEN <<[item |-> pelicula, result |-> putres]>>
    ELSE <<[item |-> pelicula, result |-> putres], [item |-> pelicula, result |-> putres]>>

\* the calls of table.put_item one call of the handler makes (line 128)
PutAttempts(pelicula, putres) == <<[item |-> pelicula, result |-> putres]>>

\* a handler whose store-client branch answers like the generic one
PutStatusGeneric(putres) == IF putres = "ok" THEN 200 ELSE 500

\* the status code of the branch the outcome of put_item selects
PutStatus(putres) ==
    IF putres = "ok" THEN 200 ELSE IF putres = "client_error" THEN 502 ELSE 500

NoResponse == [statusCode |-> 0, body |-> <<>>]

\* an exception leaves the handler
Escapes(exc, f, puts) ==
    [outcome |-> "raised", exc |-> exc, response |-> NoResponse, out |-> <<>>,
     fs |-> f, puts |-> puts, path |-> "crash", entry |-> JNull, append |-> "none"]

\* the return after print_log(entry) and append_log_file(entry), which gave a
Respond(entry, a, status, payload, appres, puts, path) ==
    IF a.raised
    THEN [outcome |-> "raised", exc |-> "OSError", response |-> NoResponse,
          out |-> <<print_log(entry)>> \o a.out, fs |-> a.fs, puts |-> puts,
          path |-> "crash", entry |-> entry, append |-> appres]
    ELSE [outcome |-> "returned", exc |-> "none",
          response |-> [statusCode |-> status, body |-> Dumps(payload)],
          out |-> <<print_log(entry)>> \o a.out, fs |-> a.fs, puts |-> puts,
          path |-> path, entry |-> entry, append |-> appres]

\* print_log(entry); append_log_file(entry); return {statusCode, body}
LogAndReturn(entry, status, payload, f, appres, t2, puts, path) ==
    Only({Respond(e, a, status, payload, appres, puts, path) :
            e \in {entry}, a \in {append_log_file(entry, f, appres, t2)}})

\* the except KeyError branch (lines 88-102)
MissingField(body, field, f, t, t2, appres) ==
    LogAndReturn(
        make_log_entry("ERROR",
            (K("action") :> JStr(K("parse_input")))
            @@ (K("message") :> JStr(K("missing required field in body")))
            @@ (K("missing_field") :> JStr(KeyErrorText(field)))
            @@ (K("body") :> body), t),
        400,
        JObj(K("error") :> JStr(<<"missing required field: ">> \o KeyErrorText(field))),
        f, appres, t2, <<>>, "missing_field")

\* the branch of a missing TABLE_NAME (lines 105-115)
ConfigMissing(f, t, t2, appres) ==
    LogAndReturn(
        make_log_entry("ERROR",
            (K("action") :> JStr(K("env_check")))
            @@ (K("message") :> JStr(K("TABLE_NAME not set in environment"))), t),
        500,
        JObj(K("error") :> JStr(K("server configuration error: TABLE_NAME missing"))),
        f, appres, t2, <<>>, "config")

\* the record built at lines 117-122
Pelicula(tenant_id, u, pelicula_datos) ==
    JObj((K("tenant_id") :> tenant_id)
         @@ (K("uuid") :> JStr(uuid4(u)))
         @@ (K("pelicula_datos") :> pelicula_datos))

\* the three ways the try block around put_item ends (lines 127-172), res
\* being what the last put_item did
AfterPut(pelicula, puts, res, f, t, t2, appres) ==
    IF res = "ok"
    THEN LogAndReturn(
            make_log_entry("INFO",
                (K("action") :> JStr(K("create_movie")))
                @@ (K("status") :> JStr(K("success")))
                @@ (K("pelicula") :> pelicula)
                @@ (K("dynamodb_response_metadata") :> Get(PutResponse, "ResponseMetadata")), t),
            PutStatus(res),
            JObj((K("pelicula") :> pelicula) @@ (K("dynamodb_response") :> PutResponse)),
            f, appres, t2, puts, "success")
    ELSE IF res = "client_error"
    THEN LogAndReturn(
            make_log_entry("ERROR",
                (K("action") :> JStr(K("create_movie")))
                @@ (K("status") :> JStr(K("dynamodb_failed")))
                @@ (K("error_message") :> JStr(PutErrorText(res)))
                @@ (K("pelicula") :> pelicula), t),
            PutStatus(res),
            JObj((K("error") :> JStr(K("dynamodb error")))
                 @@ (K("details") :> JStr(PutErrorText(res)))),
            f, appres, t2, puts, "store_failure")
    ELSE LogAndReturn(
            make_log_entry("ERROR",
                (K("action") :> JStr(K("create_movie")))
                @@ (K("status") :> JStr(K("failed_unexpected")))
                @@ (K("error_type") :> JStr(K("TypeError")))
                @@ (K("error_message") :> JStr(PutErrorText(res)))
                @@ (K("pelicula") :> pelicula), t),
            PutStatus(res),
            JObj((K("error") :> JStr(K("internal server error")))
                 @@ (K("details") :> JStr(PutErrorText(res)))),
            f, appres, t2, puts, "unexpected")

PutAndAnswer(pelicula, puts, f, t, t2, appres) ==
    AfterPut(pelicula, puts, puts[Len(puts)].result, f, t, t2, appres)

Persist(pelicula, putres, f, t, t2, appres) ==
    Only({PutAndAnswer(pelicula, puts, f, t, t2, appres) :
            puts \in {PutAttempts(pelicula, putres)}})

\* the handler from the field reads on, fe being what they raised
Validate(body, fe, tname, f, t, t2, u, cons, putres, appres) ==
    IF fe.exc = "TypeError" THEN Escapes("TypeError", f, <<>>)
    ELSE IF fe.exc = "KeyError" THEN MissingField(body, fe.field, f, t, t2, appres)
    ELSE IF TableMissing(tname) THEN ConfigMissing(f, t, t2, appres)
    ELSE IF cons = "raise" THEN Escapes("BotoCoreError", f, <<>>)
    ELSE Only({Persist(pelicula, putres, f, t, t2, appres) :
                 pelicula \in {Pelicula(Get(body, "tenant_id"), u,
                                         Get(body, "pelicula_datos"))}})

HandleBody(body, tname, f, t, t2, u, cons, putres, appres) ==
    Only({Validate(body, fe, tname, f, t, t2, u, cons, putres, appres) :
            fe \in {FirstFieldError(body)}})

\* One call of lambda_handler(event, context).  tname is TABLE_NAME, f the
\* log file, t and t2 the clock readings of the entry and of the warning of a
\* failed append, u the uuid drawn, cons / putres / appres what the store
\* client construction, put_item and the file append do.
lambda_handler(event, tname, f, t, t2, u, cons, putres, appres) ==
    Only({HandleBody(body, tname, f, t, t2, u, cons, putres, appres) :
            body \in {NormalizeBody(event)}})

\* ------------------------------------------------------------------ inputs
Tenants == {JNull, JStr(<<>>), JStr(<<"t1">>)}
Datos   == {JObj(K("title") :> JStr(<<"X">>))}

\* request bodies that are JSON objects: each field absent or present
ObjectBodies ==
    {JObj(EmptyMap)}
    \cup {JObj(K("tenant_id") :> x) : x \in Tenants}
    \cup {JObj(K("pelicula_datos") :> d) : d \in Datos}
    \cup {JObj((K("tenant_id") :> x) @@ (K("pelicula_datos") :> d)) : x \in Tenants, d \in Datos}

\* bodies that are no object: null, a list, a number
OtherBodies == {JNull, JList, JNum(5)}

\* textual bodies: the JSON text of an object with both fields, of one
\* without tenant_id, of a list, of null, of a string, and text that is no JSON
TextBodies ==
    {JStr(Dumps(JObj((K("tenant_id") :> JStr(<<"t1">>))
                     @@ (K("pelicula_datos") :> JObj(K("title") :> JStr(<<"X">>)))))),
     JStr(Dumps(JObj(K("pelicula_datos") :> JObj(K("title") :> JStr(<<"X">>))))),
     JStr(Dumps(JList)), JStr(Dumps(JNull)), JStr(Dumps(JStr(<<"a">>))),
     JStr(<<LBR, "not valid json">>)}

Events ==
    {[kind |-> "noget"], [kind |-> "nobody"]}
    \cup {[kind |-> "body", body |-> b] : b \in ObjectBodies \cup OtherBodies \cup TextBodies}

TableNames == {"None", "", "peliculas"}
Uuids == {1, 2}

\* the state after a call of the handler that gave r (ref: the same call
\* with a file append that succeeds)
HandlerStep(event, r, ref) ==
    /\ fs' = r.fs
    /\ stdout' = r.out
    /\ last' = [op |-> "lambda_handler", event |-> event,
                body |-> NormalizeBody(event), append |-> r.append,
                outcome |-> r.outcome, exc |-> r.exc, response |-> r.response,
                puts |-> r.puts, path |-> r.path, entry |-> r.entry,
                before |-> fs, ifAppended |-> ref.response]
    /\ written' = IF r.append = "ok" THEN Append(written, r.entry) ELSE written
    /\ calls' = calls + 1
    /\ UNCHANGED <<tableName, given, inv>>

\* the call gets as far as the store client: both fields read, table named
ReachesStore(event, tname) ==
    FirstFieldError(NormalizeBody(event)).exc = "none" /\ ~TableMissing(tname)

\* a call of lambda_handler that ends before the store client is built; the
\* clock reads the number of the call
HandleEarly ==
    /\ calls < MaxCalls
    /\ \E event \in Events, appres \in AppendOutcomes :
          /\ ~ReachesStore(event, tableName)
          /\ \E r \in {lambda_handler(event, tableName, fs, calls + 1, calls + 1,
                                       1, "ok", "ok", appres)},
                ref \in {lambda_handler(event, tableName, fs, calls + 1, calls + 1,
                                         1, "ok", "ok", "ok")} :
                HandlerStep(event, r, ref)

\* a call of lambda_handler that builds the store client
HandleStore ==
    /\ calls < MaxCalls
    /\ \E event \in Events, appres \in AppendOutcomes, u \in Uuids,
          cons \in ClientOutcomes, putres \in PutOutcomes :
          /\ ReachesStore(event, tableName)
          /\ cons = "raise" => (u = 1 /\ putres = "ok" /\ appres = "ok")
          /\ \E r \in {lambda_handler(event, tableName, fs, calls + 1, calls + 1,
                                       u, cons, putres, appres)},
                ref \in {lambda_handler(event, tableName, fs, calls + 1, calls + 1,
                                         u, cons, putres, "ok")} :
                HandlerStep(event, r, ref)

LambdaHandler == HandleEarly \/ HandleStore

\* the entry an earlier invocation left in the log file
PriorEntry ==
    make_log_entry("ERROR",
        (K("action") :> JStr(K("env_check")))
        @@ (K("message") :> JStr(K("TABLE_NAME not set in environment"))), 0)

\* The process starts with TABLE_NAME set or not, and with the log file
\* absent or holding the entry of an earlier invocation.
Init ==
    /\ \/ fs = NoFile /\ written = <<>>
       \/ /\ fs = [exists |-> TRUE, content |-> LogLine(PriorEntry)]
          /\ written = <<PriorEntry>>
    /\ stdout = <<>>
    /\ last = NoOp
    /\ calls = 0
    /\ tableName \in TableNames
    /\ given = <<>>
    /\ inv = Idle

Next == LambdaHandler

Spec == Init /\ [][Next]_vars

\* --------------------------------------------------- claims on the handler
Handled  == last.op = "lambda_handler"
Returned == Handled /\ last.outcome = "returned"
Status   == last.response.statusCode
\* the "error" text of the JSON body of the response
ErrorOf(resp) == Get(Loads(resp.body).val, "error").v
Mentions(text, word) == \E i \in 1..Len(text) : text[i] = word
Lacks(body, name) == ~HasKey(body, name)

\* C1: every call of lambda_handler, whatever the request body and whatever
\* the store client does, ends by returning a response {statusCode, body};
\* no exception leaves the handler.
C1_AlwaysResponds ==
    Handled => /\ last.outcome = "returned"
               /\ Status \in {200, 400, 500, 502}
               /\ Loads(last.response.body).ok

\* C2: the first failing check is reported, in the order tenant_id,
\* pelicula_datos, table configuration: a body without tenant_id gets 400
\* naming tenant_id; else one without pelicula_datos gets 400 naming
\* pelicula_datos; else a missing TABLE_NAME gets the 500 configuration error.
C2_FirstFailingCheck ==
    Handled =>
        IF Lacks(last.body, "tenant_id")
        THEN /\ Returned /\ Status = 400
             /\ Mentions(ErrorOf(last.response), "tenant_id")
             /\ ~Mentions(ErrorOf(last.response), "pelicula_datos")
        ELSE IF Lacks(last.body, "pelicula_datos")
        THEN /\ Returned /\ Status = 400
             /\ Mentions(ErrorOf(last.response), "pelicula_datos")
        ELSE TableMissing(tableName) =>
             /\ Returned /\ Status = 500
             /\ ErrorOf(last.response) = K("server configuration error: TABLE_NAME missing")

\* C3: for a request that passed the field and configuration checks, the
\* status follows the outcome of the one put: 200 with the record and the
\* store response exactly when the put succeeded, 502 "dynamodb error" for a
\* store-client error, 500 "internal server error" for any other exception.
C3_StatusFollowsPut ==
    (Handled /\ ReachesStore(last.event, tableName)) =>
        /\ (Returned /\ Status = 200) =>
               (Len(last.puts) = 1 /\ last.puts[1].result = "ok")
        /\ \A k \in 1..Len(last.puts) :
              /\ Returned
              /\ last.puts[k].result = "ok" =>
                    /\ Status = 200
                    /\ Get(Loads(last.response.body).val, "pelicula") = last.puts[k].item
                    /\ Get(Loads(last.response.body).val, "dynamodb_response") = PutResponse
              /\ last.puts[k].result = "client_error" =>
                    Status = 502 /\ ErrorOf(last.response) = K("dynamodb error")
              /\ last.puts[k].result = "other_error" =>
                    Status = 500 /\ ErrorOf(last.response) = K("internal server error")

\* a put that raised a store-client error, answered with 502
C3_Witness ==
    /\ Returned
    /\ Len(last.puts) = 1
    /\ last.puts[1].result = "client_error"
    /\ Status = 502

\* the lines of stdout that are entries of the handler itself (not the
\* warning of a failed append)
OwnEntries == {i \in 1..Len(stdout) :
                 Get(Get(Loads(stdout[i]).val, "log_datos"), "action")
                     # JStr(K("append_log_file"))}

\* C4: every call of lambda_handler produces exactly one response and writes
\* exactly one LogEntry of its own, whether or not the file append succeeds.
C4_OneResponseOneEntry ==
    Handled => /\ last.outcome = "returned"
               /\ Cardinality(OwnEntries) = 1

C8_TenantNonEmpty ==
    Handled => \A k \in 1..Len(last.puts) :
                  /\ Get(last.puts[k].item, "tenant_id").t = "str"
                  /\ Get(last.puts[k].item, "tenant_id").v # <<>>

\* C10: a call attempts at most one put: none on the missing-field and
\* configuration paths, and exactly one, not repeated, when the put fails.
C10_AtMostOnePut ==
    Handled =>
        /\ Len(last.puts) <= 1
        /\ last.path \in {"missing_field", "config"} => last.puts = <<>>
        /\ last.path \in {"success", "store_failure", "unexpected"} => Len(last.puts) = 1

\* a put that failed with an unexpected error and was not repeated
C10_Witness ==
    /\ Returned
    /\ last.path = "unexpected"
    /\ Len(last.puts) = 1
    /\ last.puts[1].result = "other_error"

\* ------------------------------------------------- direct use of the logger
\* texts a log field can hold: empty, plain, and ones with a newline, a quote,
\* a backslash or a brace in them
SampleTexts == {<<"a">>, <<"a", NL, RBR>>, <<QUOTE, BSL, "n">>}

SampleEntries ==
    {make_log_entry(IF m = <<"a">> THEN "INFO" ELSE "ERROR",
                    (K("action") :> JStr(K("create_movie")))
                    @@ (K("message") :> JStr(m)), t) :
        m \in SampleTexts, t \in Times}

\* a call of append_log_file(entry) by a user of the logger; the clock reads
\* the number of the call
AppendLogFile ==
    /\ calls < MaxAppends
    /\ \E entry \in SampleEntries, res \in AppendOutcomes :
        \E r \in {append_log_file(entry, fs, res, calls + 1)} :
          /\ fs' = r.fs
          /\ stdout' = r.out
          /\ last' = [op |-> "append_log_file", entry |-> entry, res |-> res,
                      raised |-> r.raised, before |-> fs]
          /\ written' = IF res = "ok" THEN Append(written, entry) ELSE written
    /\ calls' = calls + 1
    /\ UNCHANGED <<tableName, given, inv>>

\* a call of load_logs(); the clock reads the number of the call
LoadLogs ==
    /\ \E r \in {load_logs(fs, calls + 1)} :
          /\ stdout' = r.out
          /\ last' = [op |-> "load_logs", entries |-> r.entries, t |-> calls + 1]
    /\ UNCHANGED <<fs, calls, tableName, written, given, inv>>

InitLog ==
    /\ fs = NoFile
    /\ stdout = <<>>
    /\ last = NoOp
    /\ calls = 0
    /\ tableName = "None"
    /\ written = <<>>
    /\ given = <<>>
    /\ inv = Idle

NextLog == AppendLogFile \/ LoadLogs

SpecLog == InitLog /\ [][NextLog]_vars

\* ------------------------------------------- load_logs on an arbitrary file
Entry1 == make_log_entry("INFO", K("action") :> JStr(K("create_movie")), 1)
Entry2 == make_log_entry("ERROR", K("message") :> JStr(<<"a", NL, QUOTE>>), 1)

\* lines a log file can hold, each with what it is: blank, a JSON value
\* (good, with the value), or not JSON (bad)
SampleLines ==
    { [kind |-> "blank", text |-> <<>>, val |-> JNull],
      [kind |-> "blank", text |-> <<SP, SP>>, val |-> JNull],
      [kind |-> "good",  text |-> Dumps(Entry1), val |-> Entry1],
      [kind |-> "good",  text |-> <<SP>> \o Dumps(Entry2) \o <<SP>>, val |-> Entry2],
      [kind |-> "good",  text |-> <<"1", "0">>, val |-> JNum(10)],
      [kind |-> "bad",   text |-> Dumps(Entry1) \o Dumps(Entry1), val |-> JNull],
      [kind |-> "bad",   text |-> SubSeq(Dumps(Entry2), 1, Len(Dumps(Entry2)) - 1),
       val |-> JNull] }

\* the text of a file made of the given lines; the last line ends with a
\* newline or not
RECURSIVE FileText(_, _)
FileText(ls, finalNl) ==
    IF ls = <<>> THEN <<>>
    ELSE IF Len(ls) = 1 THEN Head(ls).text \o (IF finalNl THEN <<NL>> ELSE <<>>)
    ELSE Head(ls).text \o <<NL>> \o FileText(Tail(ls), finalNl)

RECURSIVE SeqsUpTo(_, _)
SeqsUpTo(S, n) ==
    IF n = 0 THEN {<<>>}
    ELSE LET shorter == SeqsUpTo(S, n - 1) IN
         shorter \cup {Append(q, x) : q \in shorter, x \in S}

InitLoad ==
    /\ given \in SeqsUpTo(SampleLines, MaxLines)
    /\ \/ fs = NoFile /\ given = <<>>
       \/ \E finalNl \in BOOLEAN : fs = [exists |-> TRUE, content |-> FileText(given, finalNl)]
    /\ stdout = <<>>
    /\ last = NoOp
    /\ calls = 0
    /\ tableName = "None"
    /\ written = <<>>
    /\ inv = Idle

NextLoad == LoadLogs

SpecLoad == InitLoad /\ [][NextLoad]_vars

\* the values of the well-formed lines, in file order
RECURSIVE GoodVals(_)
GoodVals(ls) ==
    IF ls = <<>> THEN <<>>
    ELSE (IF Head(ls).kind = "good" THEN <<Head(ls).val>> ELSE <<>>) \o GoodVals(Tail(ls))

\* the ERROR entries due for the malformed lines, each with its line number
RECURSIVE BadWarns(_, _, _)
BadWarns(ls, i, t) ==
    IF i > Len(ls) THEN <<>>
    ELSE (IF ls[i].kind = "bad" THEN <<Dumps(LoadWarn(i, t))>> ELSE <<>>)
         \o BadWarns(ls, i + 1, t)

\* C6: load_logs returns the values of the well-formed lines in file order,
\* prints one ERROR entry per malformed line with that line's 1-based number
\* (blank lines counted) and LOG_PATH, prints nothing for blank lines, and
\* returns the empty sequence for a missing file.
C6_LoadSkipsAndReports ==
    last.op = "load_logs" =>
        /\ last.entries = GoodVals(given)
        /\ stdout = BadWarns(given, 1, last.t)
        /\ (~fs.exists => last.entries = <<>> /\ stdout = <<>>)

\* a loaded file whose second of three lines is malformed, with a blank line
\* before a malformed one elsewhere
C6_Witness ==
    /\ last.op = "load_logs"
    /\ Len(given) = 3
    /\ given[1].kind = "good" /\ given[2].kind = "bad" /\ given[3].kind = "good"
    /\ Len(last.entries) = 2
    /\ Len(stdout) = 1

\* C7: after successful appends to an initially absent file, load_logs returns
\* exactly the appended entries, equal to what was written, in append order.
C7_RoundTrip == last.op = "load_logs" => last.entries = written

\* two different entries appended, one with a newline in a field, then loaded
C7_Witness ==
    /\ last.op = "load_logs"
    /\ Len(written) = 2
    /\ written[1] # written[2]
    /\ Get(Get(written[1], "log_datos"), "message") = JStr(<<"a", NL, RBR>>)
    /\ last.entries = written

\* ------------------------------------ concurrent invocations, one log file
\* Each invocation runs the with-block of append_log_file on its own entry:
\* open(path, "a"), f.write(line) into the buffer of f, and the close at the
\* end of the block, which flushes the buffer with one write().
Invs == 1..NumInv

\* the entry of invocation i: its record carries its own uuid
EntryOf(i, m) ==
    make_log_entry("INFO",
        (K("action") :> JStr(K("create_movie")))
        @@ (K("message") :> JStr(m))
        @@ (K("uuid") :> JStr(uuid4(i))), i)

\* open(path, "a") returns: the file exists from now on, and the descriptor's
\* own offset is the end of the file as it is now
InvOpen(i) ==
    /\ inv[i].pc = "idle"
    /\ fs' = OpenFile(fs, OpenMode)
    /\ inv' = [inv EXCEPT ![i] = [pc |-> "open", pos |-> Len(OpenFile(fs, OpenMode).content),
                                  buf |-> <<>>]]
    /\ UNCHANGED <<stdout, last, calls, tableName, written, given>>

\* open raises: the except branch prints the warning
InvOpenFails(i) ==
    /\ inv[i].pc = "idle"
    /\ inv' = [inv EXCEPT ![i] = [pc |-> "failed"]]
    /\ stdout' = Append(stdout, Dumps(AppendWarn(i)))
    /\ UNCHANGED <<fs, last, calls, tableName, written, given>>

\* f.write(json.dumps(entry) + "\n"): the line is in the buffer
InvWrite(i) ==
    /\ inv[i].pc = "open"
    /\ \E m \in {<<"a">>, <<"a", NL, RBR>>} :
          inv' = [inv EXCEPT ![i] = [pc |-> "buffered", pos |-> inv[i].pos,
                                    buf |-> LogLine(EntryOf(i, m)),
                                    entry |-> EntryOf(i, m)]]
    /\ UNCHANGED <<fs, stdout, last, calls, tableName, written, given>>

\* the close flushes the buffer: one write() of the whole line
InvClose(i) ==
    /\ inv[i].pc = "buffered"
    /\ fs' = WriteFile(fs, OpenMode, inv[i].pos, inv[i].buf)
    /\ written' = Append(written, inv[i].entry)
    /\ inv' = [inv EXCEPT ![i] = [pc |-> "done"]]
    /\ UNCHANGED <<stdout, last, calls, tableName, given>>

\* the flush raises and nothing reaches the file
InvCloseFails(i) ==
    /\ inv[i].pc = "buffered"
    /\ inv' = [inv EXCEPT ![i] = [pc |-> "failed"]]
    /\ stdout' = Append(stdout, Dumps(AppendWarn(i)))
    /\ UNCHANGED <<fs, last, calls, tableName, written, given>>

InitConc ==
    /\ \/ fs = NoFile /\ written = <<>>
       \/ /\ fs = [exists |-> TRUE, content |-> LogLine(PriorEntry)]
          /\ written = <<PriorEntry>>
    /\ stdout = <<>>
    /\ last = NoOp
    /\ calls = 0
    /\ tableName = "peliculas"
    /\ given = <<>>
    /\ inv = Idle

NextConc ==
    \E i \in Invs :
        InvOpen(i) \/ InvOpenFails(i) \/ InvWrite(i) \/ InvClose(i) \/ InvCloseFails(i)

SpecConc == InitConc /\ [][NextConc]_vars

\* the lines of the log file as a reader sees them
FileLines == SplitLines(fs.content)

\* C9: under any interleaving of the appends of several invocations, the
\* lines of the log file are exactly the entries of the appends completed so
\* far, one whole entry per line, and a step never changes or removes a line
\* that is already in the file.
C9_AppendOnly ==
    [][ \E old \in {FileLines}, new \in {FileLines'} :
          /\ Len(new) = Len(written')
          /\ \A k \in 1..Len(new) : new[k] = Dumps(written'[k])
          /\ (fs'.content # <<>> => fs'.content[Len(fs'.content)] = NL)
          /\ Len(new) >= Len(old)
          /\ \A k \in 1..Len(old) : new[k] = old[k] ]_vars

\* two invocations had the file open at once and both lines are in the file
C9_Witness ==
    /\ \A i \in {1, 2} : inv[i].pc = "done"
    /\ Len(FileLines) = 3
    /\ written[2] = EntryOf(2, <<"a", NL, RBR>>)
    /\ written[3] = EntryOf(1, <<"a">>)

====
